---- MODULE Spec2Model ----
(***************************************************************************)
(* A model of the lexical scanner of src/src/scanner.rs.                   *)
(*                                                                         *)
(* A character is a Unicode scalar value (Rust `char`), written here as    *)
(* its code point.  The Scanner's fields are the variables source, tokens, *)
(* start, current, line, column and errors.  pc is the position of         *)
(* control inside scan_tokens, panic records an abort of the scan (an      *)
(* index out of bounds or an unwrap of Err), and calls counts the          *)
(* invocations of scan_tokens made so far.                                 *)
(***************************************************************************)
EXTENDS Integers, Sequences, FiniteSets, TLC

VARIABLES source, tokens, start, current, line, column, errors, pc, panic, calls

vars == <<source, tokens, start, current, line, column, errors, pc, panic, calls>>

(***************************************************************************)
(* Bounds of the model.                                                    *)
(***************************************************************************)
\* longest source drawn over the whole alphabet
MaxLen == 2
\* longest source drawn over the core alphabet
MaxCoreLen == 4
\* longest source drawn over the punctuation marks
MaxPunctLen == 3
\* longest source of the specification that states fairness
MaxFairLen == 3
\* longest run of characters appended to a reserved word
MaxSuffix == 1
\* invocations of scan_tokens on one Scanner
MaxCalls == 2

(***************************************************************************)
(* The characters the scanner names (scan_token's match arms).             *)
(***************************************************************************)
ChLeftParen == 40
ChRightParen == 41
ChLeftBrace == 123
ChRightBrace == 125
ChComma == 44
ChDot == 46
ChMinus == 45
ChPlus == 43
ChSemicolon == 59
ChStar == 42
ChBang == 33
ChEqual == 61
ChLess == 60
ChGreater == 62
ChSlash == 47
ChSpace == 32
ChCR == 13
ChTab == 9
ChNewline == 10
ChQuote == 34
ChUnderscore == 95
\* '\0', what peek and peek_next return at the end of the source
ChNul == 0

\* the value of an indexing source[i] that Rust's bounds check rejects
IndexPanic == 0 - 1

AsciiDigit == 48..57
AsciiLetter == (97..122) \cup (65..90)

\* char::is_numeric: general categories Nd, Nl, No (the code points below U+0700)
is_numeric(c) ==
    c \in (48..57) \cup {178, 179, 185} \cup (188..190) \cup (1632..1641) \cup (1776..1785)

\* char::is_alphabetic (the code points below U+0100)
is_alphabetic(c) ==
    c \in (65..90) \cup (97..122) \cup {170, 181, 186} \cup (192..214) \cup (216..246) \cup (248..255)

\* char::is_alphanumeric
is_alphanumeric(c) == is_alphabetic(c) \/ is_numeric(c)

(***************************************************************************)
(* Text.  A String is the sequence of its characters.                      *)
(***************************************************************************)
Str(t) == t

\* source[a..b] collected into a String (Rust half-open range, 0-based);
\* a range with a > b or b > len panics
Slice(src, a, b) == SubSeq(src, a + 1, b)

RECURSIVE DigitsValue(_)
DigitsValue(ds) ==
    IF ds = <<>> THEN 0
    ELSE 10 * DigitsValue(SubSeq(ds, 1, Len(ds) - 1)) + (ds[Len(ds)] - 48)

RECURSIVE Normalise(_, _)
Normalise(m, k) ==
    IF k > 0 /\ m % 10 = 0 THEN Normalise(m \div 10, k - 1) ELSE [mant |-> m, scale |-> k]

\* str::parse::<f64> on a text of numeric characters and dots: Ok for
\* digits, digits '.' digits (either side possibly empty, not both);
\* the value is mant / 10^scale
parse_f64(text) ==
    LET dots == {i \in 1..Len(text) : text[i] = ChDot}
        digs == {i \in 1..Len(text) : text[i] \in AsciiDigit}
    IN  IF /\ dots \cup digs = 1..Len(text)
           /\ Cardinality(dots) <= 1
           /\ digs # {}
        THEN LET ds == [i \in 1..Cardinality(digs) |->
                          text[CHOOSE j \in digs : Cardinality({x \in digs : x < j}) = i - 1]]
                 k  == IF dots = {} THEN 0
                       ELSE Cardinality({j \in digs : j > CHOOSE d \in dots : TRUE})
             IN  [ok |-> TRUE, value |-> Normalise(DigitsValue(ds), k)]
        ELSE [ok |-> FALSE, value |-> Normalise(0, 0)]

(***************************************************************************)
(* Records of crate::domain.                                               *)
(***************************************************************************)
None == [tag |-> "None"]
LiteralString(v) == [tag |-> "String", value |-> v]
LiteralNumber(v) == [tag |-> "Number", value |-> v]
LiteralBoolean(b) == [tag |-> "Boolean", value |-> b]
LiteralNil == [tag |-> "Nil"]

Token(token_type, lexeme, literal, ln, col) ==
    [token_type |-> token_type, lexeme |-> lexeme, literal |-> literal,
     line |-> ln, column |-> col]

ScannerError(message, ln, col) == [message |-> message, line |-> ln, column |-> col]

(***************************************************************************)
(* The Scanner as a value, and its methods as operators on that value.     *)
(***************************************************************************)
Self ==
    [source |-> source, tokens |-> tokens, start |-> start, current |-> current,
     line |-> line, column |-> column, errors |-> errors, panic |-> panic]

Set(s) ==
    /\ source' = s.source
    /\ tokens' = s.tokens
    /\ start' = s.start
    /\ current' = s.current
    /\ line' = s.line
    /\ column' = s.column
    /\ errors' = s.errors
    /\ panic' = s.panic

new(src) ==
    [source |-> src, tokens |-> <<>>, start |-> 0, current |-> 0,
     line |-> 1, column |-> 0, errors |-> <<>>, panic |-> "none"]

Panic(s, why) == [s EXCEPT !.panic = why]

\* source[i], bounds-checked
Index(s, i) == IF i >= 0 /\ i < Len(s.source) THEN s.source[i + 1] ELSE IndexPanic

\* is_at_end with > for >=
is_at_end_off_by_one(s) == s.current > Len(s.source)

is_at_end(s) == s.current >= Len(s.source)

\* add_token reporting the column of the lexeme's first character
add_token_start_column(s, token_type, literal) ==
    IF s.start > s.current \/ s.current > Len(s.source)
    THEN Panic(s, "index")
    ELSE [s EXCEPT !.tokens =
            Append(@, Token(token_type, Str(Slice(s.source, s.start, s.current)),
                            literal, s.line, s.column - (s.current - s.start) + 1))]

add_token(s, token_type, literal) ==
    IF s.start > s.current \/ s.current > Len(s.source)
    THEN Panic(s, "index")
    ELSE [s EXCEPT !.tokens =
            Append(@, Token(token_type, Str(Slice(s.source, s.start, s.current)),
                            literal, s.line, s.column))]

advance(s) ==
    LET c == Index(s, s.current)
    IN  IF c = IndexPanic
        THEN [self |-> Panic(s, "index"), ch |-> c]
        ELSE [self |-> [s EXCEPT !.current = @ + 1, !.column = @ + 1], ch |-> c]

\* advance_peek without the comparison with expected
advance_peek_any(s, expected) ==
    IF s.current >= Len(s.source) THEN [self |-> s, matched |-> FALSE]
    ELSE [self |-> [s EXCEPT !.current = @ + 1, !.column = @ + 1], matched |-> TRUE]

advance_peek(s, expected) ==
    IF is_at_end(s) THEN [self |-> s, matched |-> FALSE]
    ELSE LET next_char == Index(s, s.current)
         IN  IF next_char = IndexPanic THEN [self |-> Panic(s, "index"), matched |-> FALSE]
             ELSE IF next_char # expected THEN [self |-> s, matched |-> FALSE]
             ELSE [self |-> [s EXCEPT !.current = @ + 1, !.column = @ + 1],
                   matched |-> TRUE]

peek(s) == IF is_at_end(s) THEN ChNul ELSE Index(s, s.current)

peek_next(s) == IF s.current + 1 >= Len(s.source) THEN ChNul ELSE Index(s, s.current + 1)

(***************************************************************************)
(* scan_token: the match on the character advance returned.                *)
(***************************************************************************)
SingleChars ==
    {ChLeftParen, ChRightParen, ChLeftBrace, ChRightBrace, ChComma, ChDot,
     ChMinus, ChPlus, ChSemicolon, ChStar}

\* single_char_type with the arm of ',' copied to '.'
single_char_type_dot_as_comma(c) ==
    CASE c = ChLeftParen -> "LeftParen"
      [] c = ChRightParen -> "RightParen"
      [] c = ChLeftBrace -> "LeftBrace"
      [] c = ChRightBrace -> "RightBrace"
      [] c = ChComma -> "Comma"
      [] c = ChDot -> "Comma"
      [] c = ChMinus -> "Minus"
      [] c = ChPlus -> "Plus"
      [] c = ChSemicolon -> "Semicolon"
      [] c = ChStar -> "Star"

single_char_type(c) ==
    CASE c = ChLeftParen -> "LeftParen"
      [] c = ChRightParen -> "RightParen"
      [] c = ChLeftBrace -> "LeftBrace"
      [] c = ChRightBrace -> "RightBrace"
      [] c = ChComma -> "Comma"
      [] c = ChDot -> "Dot"
      [] c = ChMinus -> "Minus"
      [] c = ChPlus -> "Plus"
      [] c = ChSemicolon -> "Semicolon"
      [] c = ChStar -> "Star"

OperatorChars == {ChBang, ChEqual, ChLess, ChGreater}

one_char_type(c) ==
    CASE c = ChBang -> "Bang"
      [] c = ChEqual -> "Equal"
      [] c = ChLess -> "Less"
      [] c = ChGreater -> "Greater"

two_char_type(c) ==
    CASE c = ChBang -> "BangEqual"
      [] c = ChEqual -> "EqualEqual"
      [] c = ChLess -> "LessEqual"
      [] c = ChGreater -> "GreaterEqual"

\* the arms '!', '=', '<', '>'
operator_arm(s, c) ==
    LET p == advance_peek(s, ChEqual)
    IN  IF p.self.panic # "none" THEN [self |-> p.self, pc |-> "scan_token"]
        ELSE IF p.matched
        THEN [self |-> add_token(p.self, two_char_type(c), None), pc |-> "loop"]
        ELSE [self |-> add_token(p.self, one_char_type(c), None), pc |-> "loop"]

\* the arm '/'
slash_arm(s) ==
    LET p == advance_peek(s, ChSlash)
    IN  IF p.self.panic # "none" THEN [self |-> p.self, pc |-> "scan_token"]
        ELSE IF p.matched
        THEN [self |-> p.self, pc |-> "comment"]
        ELSE [self |-> add_token(p.self, "Slash", None), pc |-> "loop"]

\* the arm '\n' without the reset of column
newline_arm_keeps_column(s) == [self |-> [s EXCEPT !.line = @ + 1], pc |-> "loop"]

\* the arm '\n'
newline_arm(s) == [self |-> [s EXCEPT !.line = @ + 1, !.column = 0], pc |-> "loop"]

\* the arm _ without the push
unexpected_arm_silent(s, c) == [self |-> s, pc |-> "loop"]

\* the arm _
unexpected_arm(s, c) ==
    [self |-> [s EXCEPT !.errors =
                 Append(@, ScannerError(<<"Unexpected character: ", c>>, s.line, s.column))],
     pc |-> "loop"]

scan_token(s) ==
    LET a == advance(s)
        current_char == a.ch
        t == a.self
    IN  IF t.panic # "none" THEN [self |-> t, pc |-> "scan_token"]
        ELSE IF current_char \in SingleChars
        THEN [self |-> add_token(t, single_char_type(current_char), None), pc |-> "loop"]
        ELSE IF current_char \in OperatorChars THEN operator_arm(t, current_char)
        ELSE IF current_char = ChSlash THEN slash_arm(t)
        ELSE IF current_char \in {ChSpace, ChCR, ChTab} THEN [self |-> t, pc |-> "loop"]
        ELSE IF current_char = ChNewline THEN newline_arm(t)
        ELSE IF current_char = ChQuote THEN [self |-> t, pc |-> "string"]
        ELSE IF current_char \in AsciiDigit THEN [self |-> t, pc |-> "number"]
        ELSE IF current_char \in AsciiLetter \/ current_char = ChUnderscore
        THEN [self |-> t, pc |-> "identifier"]
        ELSE unexpected_arm(t, current_char)

\* the comment loop with a body that does not advance
comment_loop_stuck(s) ==
    IF s.current < Len(s.source) /\ s.source[s.current + 1] # ChNewline
    THEN [self |-> s, pc |-> "comment"]
    ELSE [self |-> s, pc |-> "loop"]

\* the comment loop running through the newline
comment_loop_swallows_newline(s) ==
    IF s.current < Len(s.source)
    THEN [self |-> [s EXCEPT !.current = @ + 1, !.column = @ + 1],
          pc |-> IF s.source[s.current + 1] = ChNewline THEN "loop" ELSE "comment"]
    ELSE [self |-> s, pc |-> "loop"]

\* one evaluation of the comment loop's condition, and its body when it holds
comment_loop(s) ==
    LET c == peek(s)
    IN  IF c = IndexPanic THEN [self |-> Panic(s, "index"), pc |-> "comment"]
        ELSE IF c # ChNewline /\ ~is_at_end(s)
        THEN [self |-> advance(s).self, pc |-> "comment"]
        ELSE [self |-> s, pc |-> "loop"]

(***************************************************************************)
(* construct_string                                                        *)
(***************************************************************************)
\* the loop's body with the reset of column the arm '\n' makes
string_body_resets_column(s) ==
    IF s.current < Len(s.source) /\ s.source[s.current + 1] = ChNewline
    THEN [s EXCEPT !.line = @ + 1, !.current = @ + 1, !.column = 0]
    ELSE [s EXCEPT !.current = @ + 1, !.column = @ + 1]

\* the loop's body without the count of newlines
string_body_no_line(s) == [s EXCEPT !.current = @ + 1, !.column = @ + 1]

\* the loop's body
string_body(s) ==
    LET t == IF peek(s) = ChNewline THEN [s EXCEPT !.line = @ + 1] ELSE s
    IN  advance(t).self

\* the unterminated string, not reported
unterminated_string_silent(s) == s

\* the unterminated string
unterminated_string(s) ==
    [s EXCEPT !.errors = Append(@, ScannerError(<<"Unterminated string.">>, s.line, s.column))]

\* string_token with the value cut at start..current
string_token_with_quotes(s) ==
    LET t == [s EXCEPT !.current = @ + 1, !.column = @ + 1]
    IN  add_token(t, "String", LiteralString(Str(Slice(t.source, t.start, t.current))))

\* the closing quote, the value and the token
string_token(s) ==
    LET t == advance(s).self
    IN  IF t.panic # "none" THEN t
        ELSE IF t.start + 1 > t.current - 1 \/ t.current - 1 > Len(t.source)
        THEN Panic(t, "index")
        ELSE LET value == Str(Slice(t.source, t.start + 1, t.current - 1))
             IN  add_token(t, "String", LiteralString(value))

\* construct_string with a '"' after a backslash taken as escaped
construct_string_escapes(s) ==
    IF s.current < Len(s.source)
       /\ (s.source[s.current + 1] # ChQuote
           \/ (s.current >= 1 /\ s.current > s.start + 1 /\ s.source[s.current] = 92))
    THEN [self |-> string_body(s), pc |-> "string"]
    ELSE IF s.current >= Len(s.source)
    THEN [self |-> unterminated_string(s), pc |-> "loop"]
    ELSE [self |-> string_token(s), pc |-> "loop"]

construct_string(s) ==
    LET c == peek(s)
    IN  IF c = IndexPanic THEN [self |-> Panic(s, "index"), pc |-> "string"]
        ELSE IF c # ChQuote /\ ~is_at_end(s)
        THEN [self |-> string_body(s), pc |-> "string"]
        ELSE IF is_at_end(s)
        THEN [self |-> unterminated_string(s), pc |-> "loop"]
        ELSE [self |-> string_token(s), pc |-> "loop"]

(***************************************************************************)
(* construct_number                                                        *)
(***************************************************************************)
\* the text, its parse, the unwrap and the token
number_token(s) ==
    IF s.start > s.current \/ s.current > Len(s.source) THEN Panic(s, "index")
    ELSE LET r == parse_f64(Str(Slice(s.source, s.start, s.current)))
         IN  IF ~r.ok THEN Panic(s, "unwrap")
             ELSE add_token(s, "Number", LiteralNumber(r.value))

\* whether a fractional part follows the leading digits
fraction_follows(s) == peek(s) = ChDot /\ is_numeric(peek_next(s))

\* the first digit loop and the test for a fractional part
construct_number(s) ==
    LET c == peek(s)
    IN  IF c = IndexPanic THEN [self |-> Panic(s, "index"), pc |-> "number"]
        ELSE IF is_numeric(c) THEN [self |-> advance(s).self, pc |-> "number"]
        ELSE IF c = ChDot /\ peek_next(s) = IndexPanic
        THEN [self |-> Panic(s, "index"), pc |-> "number"]
        ELSE IF fraction_follows(s) THEN [self |-> advance(s).self, pc |-> "fraction"]
        ELSE [self |-> number_token(s), pc |-> "loop"]

\* the second digit loop
construct_fraction(s) ==
    LET c == peek(s)
    IN  IF c = IndexPanic THEN [self |-> Panic(s, "index"), pc |-> "fraction"]
        ELSE IF is_numeric(c) THEN [self |-> advance(s).self, pc |-> "fraction"]
        ELSE [self |-> number_token(s), pc |-> "loop"]

(***************************************************************************)
(* construct_identifier                                                    *)
(***************************************************************************)
KwAnd == <<97, 110, 100>>
KwClass == <<99, 108, 97, 115, 115>>
KwElse == <<101, 108, 115, 101>>
KwFalse == <<102, 97, 108, 115, 101>>
KwFor == <<102, 111, 114>>
KwFun == <<102, 117, 110>>
KwIf == <<105, 102>>
KwNil == <<110, 105, 108>>
KwOr == <<111, 114>>
KwPrint == <<112, 114, 105, 110, 116>>
KwReturn == <<114, 101, 116, 117, 114, 110>>
KwSuper == <<115, 117, 112, 101, 114>>
KwThis == <<116, 104, 105, 115>>
KwTrue == <<116, 114, 117, 101>>
KwVar == <<118, 97, 114>>
KwWhile == <<119, 104, 105, 108, 101>>

keyword_type(text) ==
    CASE text = KwAnd -> "And"
      [] text = KwClass -> "Class"
      [] text = KwElse -> "Else"
      [] text = KwFalse -> "False"
      [] text = KwFor -> "For"
      [] text = KwFun -> "Fun"
      [] text = KwIf -> "If"
      [] text = KwNil -> "Nil"
      [] text = KwOr -> "Or"
      [] text = KwPrint -> "Print"
      [] text = KwReturn -> "Return"
      [] text = KwSuper -> "Super"
      [] text = KwThis -> "This"
      [] text = KwTrue -> "True"
      [] text = KwVar -> "Var"
      [] text = KwWhile -> "While"
      [] OTHER -> "Identifier"

\* keyword_literal without the arm of Nil
keyword_literal_without_nil(token_type) ==
    CASE token_type = "True" -> LiteralBoolean(TRUE)
      [] token_type = "False" -> LiteralBoolean(FALSE)
      [] OTHER -> None

keyword_literal(token_type) ==
    CASE token_type = "True" -> LiteralBoolean(TRUE)
      [] token_type = "False" -> LiteralBoolean(FALSE)
      [] token_type = "Nil" -> LiteralNil
      [] OTHER -> None

\* identifier_token with the lookup matching a reserved word at the head
\* of the text
identifier_token_prefix(s) ==
    IF s.start > s.current \/ s.current > Len(s.source) THEN Panic(s, "index")
    ELSE LET text == Str(Slice(s.source, s.start, s.current))
             heads == {n \in 1..Len(text) : keyword_type(SubSeq(text, 1, n)) # "Identifier"}
             token_type == IF heads = {} THEN "Identifier"
                           ELSE keyword_type(SubSeq(text, 1, CHOOSE n \in heads : TRUE))
         IN  add_token(s, token_type, keyword_literal(token_type))

identifier_token(s) ==
    IF s.start > s.current \/ s.current > Len(s.source) THEN Panic(s, "index")
    ELSE LET text == Str(Slice(s.source, s.start, s.current))
             token_type == keyword_type(text)
         IN  add_token(s, token_type, keyword_literal(token_type))

construct_identifier(s) ==
    LET c == peek(s)
    IN  IF c = IndexPanic THEN [self |-> Panic(s, "index"), pc |-> "identifier"]
        ELSE IF is_alphanumeric(c) \/ c = ChUnderscore
        THEN [self |-> advance(s).self, pc |-> "identifier"]
        ELSE [self |-> identifier_token(s), pc |-> "loop"]

(***************************************************************************)
(* scan_tokens                                                             *)
(***************************************************************************)
\* scan_tokens without the push after the loop
eof_token_omitted(s) == s

\* the push after the loop, skipped when the last token is Eof already
eof_token_once(s) ==
    IF s.tokens # <<>> /\ s.tokens[Len(s.tokens)].token_type = "Eof" THEN s
    ELSE [s EXCEPT !.tokens = Append(@, Token("Eof", Str(<<>>), None, s.line, s.column))]

eof_token(s) == [s EXCEPT !.tokens = Append(@, Token("Eof", Str(<<>>), None, s.line, s.column))]

\* scan_tokens without the assignment of start
scan_tokens_keeps_start(s) ==
    IF s.current < Len(s.source)
    THEN [self |-> s, pc |-> "scan_token"]
    ELSE [self |-> [s EXCEPT !.tokens =
                      Append(@, Token("Eof", Str(<<>>), None, s.line, s.column))],
          pc |-> "returned"]

\* one evaluation of the main loop's condition: the start of a lexeme, or
\* the end-of-input token and the return
scan_tokens(s) ==
    IF ~is_at_end(s)
    THEN [self |-> [s EXCEPT !.start = s.current], pc |-> "scan_token"]
    ELSE [self |-> eof_token(s), pc |-> "returned"]

\* the step of the scan at control position p
Step(s, p) ==
    CASE p = "loop" -> scan_tokens(s)
      [] p = "scan_token" -> scan_token(s)
      [] p = "comment" -> comment_loop(s)
      [] p = "string" -> construct_string(s)
      [] p = "number" -> construct_number(s)
      [] p = "fraction" -> construct_fraction(s)
      [] p = "identifier" -> construct_identifier(s)

\* the scan from control position p to the end of the lexeme in hand (the
\* head of the main loop), or to its abort
RECURSIVE RunLexeme(_, _)
RunLexeme(s, p) ==
    LET r == Step(s, p)
    IN  IF r.self.panic # "none" \/ r.pc \in {"loop", "returned"} THEN r.self
        ELSE RunLexeme(r.self, r.pc)

\* the scan from control position p to its return or its abort
RECURSIVE Run(_, _)
Run(s, p) ==
    IF s.panic # "none" \/ p = "returned" THEN s
    ELSE LET r == Step(s, p) IN Run(r.self, r.pc)

(***************************************************************************)
(* The sources the model scans.                                            *)
(***************************************************************************)
SeqsUpTo(A, n) == UNION {[1..k -> A] : k \in 0..n}

\* every character scan_token names, with '0' '1' 'a' '@' '\\' and the
\* non-ASCII superscript two and e acute
Alphabet ==
    SingleChars \cup OperatorChars
    \cup {ChSlash, ChSpace, ChCR, ChTab, ChNewline, ChQuote, ChUnderscore}
    \cup {48, 49, 97, 64, 92, 178, 233}

\* '"' '\n' '.' '/' '=' '1' 'a' '@' and superscript two
CoreAlphabet == {ChQuote, ChNewline, ChDot, ChSlash, ChEqual, 49, 97, 64, 178}

Keywords ==
    {KwAnd, KwClass, KwElse, KwFalse, KwFor, KwFun, KwIf, KwNil, KwOr, KwPrint,
     KwReturn, KwSuper, KwThis, KwTrue, KwVar, KwWhile}

\* '_' 'y' ' ' '1' and e acute
SuffixAlphabet == {ChUnderscore, 121, ChSpace, 49, 233}

\* the sources of the tests: (() and (){},.-+;* and "Coolstorm" and 123.45
TestSources ==
    { <<40, 40, 41>>,
      <<40, 41, 123, 125, 44, 46, 45, 43, 59, 42>>,
      <<34, 67, 111, 111, 108, 115, 116, 111, 114, 109, 34>>,
      <<49, 50, 51, 46, 52, 53>> }

\* '"' '\\' 'a' and '\n'
StringAlphabet == {ChQuote, 92, 97, ChNewline}

Sources ==
    SeqsUpTo(Alphabet, MaxLen) \cup SeqsUpTo(CoreAlphabet, MaxCoreLen)
    \cup SeqsUpTo(StringAlphabet, MaxCoreLen)
    \cup SeqsUpTo(SingleChars \cup {ChSlash}, MaxPunctLen)
    \cup {kw \o sfx : kw \in Keywords, sfx \in SeqsUpTo(SuffixAlphabet, MaxSuffix)}
    \cup TestSources

\* '"' '\n' '.' '/' '1' 'a' and superscript two
FairAlphabet == {ChQuote, ChNewline, ChDot, ChSlash, 49, 97, 178}

\* the sources of the specification that states fairness: every character
\* of the alphabet alone, the sources over FairAlphabet, the tests
FairSources ==
    SeqsUpTo(Alphabet, 1) \cup SeqsUpTo(FairAlphabet, MaxFairLen) \cup TestSources

(***************************************************************************)
(* The state machine.                                                      *)
(***************************************************************************)
\* Scanner::new(src), scan_tokens not yet invoked
Fresh(src) ==
    LET s == new(src)
    IN  /\ source = s.source
        /\ tokens = s.tokens
        /\ start = s.start
        /\ current = s.current
        /\ line = s.line
        /\ column = s.column
        /\ errors = s.errors
        /\ panic = s.panic
        /\ pc = "new"
        /\ calls = 0

Init == \E src \in Sources : Fresh(src)

FairInit == \E src \in FairSources : Fresh(src)

Running == panic = "none"

\* the step r of the scan: the Scanner it leaves and where control goes
Do(r) ==
    /\ Set(r.self)
    /\ pc' = r.pc
    /\ UNCHANGED calls

\* the caller invokes scan_tokens
Invoke ==
    /\ pc \in {"new", "returned"}
    /\ Running
    /\ calls < MaxCalls
    /\ pc' = "loop"
    /\ calls' = calls + 1
    /\ UNCHANGED <<source, tokens, start, current, line, column, errors, panic>>

\* the head of the main loop: the next lexeme, or the Eof token and the return
MainLoop ==
    /\ pc = "loop"
    /\ Running
    /\ Do(scan_tokens(Self))

\* scan_token: the first character of the lexeme and its match arm
ScanToken ==
    /\ pc = "scan_token"
    /\ Running
    /\ Do(scan_token(Self))

\* the loop of a line comment
CommentLoop ==
    /\ pc = "comment"
    /\ Running
    /\ Do(comment_loop(Self))

\* construct_string: an iteration of its loop, or the code after it
ConstructString ==
    /\ pc = "string"
    /\ Running
    /\ Do(construct_string(Self))

\* construct_number: an iteration of its first loop, or the test for a
\* fractional part and what follows
ConstructNumber ==
    /\ pc = "number"
    /\ Running
    /\ Do(construct_number(Self))

\* construct_number: an iteration of its second loop, or the code after it
ConstructFraction ==
    /\ pc = "fraction"
    /\ Running
    /\ Do(construct_fraction(Self))

\* construct_identifier: an iteration of its loop, or the code after it
ConstructIdentifier ==
    /\ pc = "identifier"
    /\ Running
    /\ Do(construct_identifier(Self))

Next ==
    \/ Invoke
    \/ MainLoop
    \/ ScanToken
    \/ CommentLoop
    \/ ConstructString
    \/ ConstructNumber
    \/ ConstructFraction
    \/ ConstructIdentifier

Spec == Init /\ [][Next]_vars

\* the scan is never preempted: a step that can be taken is taken
FairSpec == FairInit /\ [][Next]_vars /\ WF_vars(Next)

TypeOK ==
    /\ pc \in {"new", "loop", "scan_token", "comment", "string", "number", "fraction",
               "identifier", "returned"}
    /\ panic \in {"none", "index", "unwrap"}
    /\ calls \in 0..MaxCalls
    /\ start \in 0..Len(source)
    /\ current \in 0..Len(source)

(***************************************************************************)
(* Properties.                                                             *)
(***************************************************************************)
Last(seq) == seq[Len(seq)]

\* the first invocation of scan_tokens has returned
FirstScanDone == pc = "returned" /\ calls = 1

\* C1: after one call of scan_tokens on a fresh Scanner the token sequence
\* is non-empty, its last token is Eof with an empty lexeme and no literal,
\* and no other token is Eof.
C1_ExactlyOneEofLast ==
    FirstScanDone =>
        /\ Len(tokens) >= 1
        /\ Last(tokens).token_type = "Eof"
        /\ Last(tokens).lexeme = <<>>
        /\ Last(tokens).literal = None
        /\ \A i \in 1..(Len(tokens) - 1) : tokens[i].token_type # "Eof"

C1_Witness ==
    /\ FirstScanDone
    /\ Len(tokens) >= 3
    /\ errors # <<>>

\* the punctuation marks of the specification and the kind of each
Punctuation ==
    {ChLeftParen, ChRightParen, ChLeftBrace, ChRightBrace, ChComma, ChDot,
     ChMinus, ChPlus, ChSemicolon, ChStar, ChSlash}

PunctuationKind(c) ==
    CASE c = ChLeftParen -> "LeftParen"
      [] c = ChRightParen -> "RightParen"
      [] c = ChLeftBrace -> "LeftBrace"
      [] c = ChRightBrace -> "RightBrace"
      [] c = ChComma -> "Comma"
      [] c = ChDot -> "Dot"
      [] c = ChMinus -> "Minus"
      [] c = ChPlus -> "Plus"
      [] c = ChSemicolon -> "Semicolon"
      [] c = ChStar -> "Star"
      [] c = ChSlash -> "Slash"

PunctuationOnly == \A i \in 1..Len(source) : source[i] \in Punctuation

NoAdjacentSlashes ==
    \A i \in 1..(Len(source) - 1) : ~(source[i] = ChSlash /\ source[i + 1] = ChSlash)

OneTokenPerCharacter ==
    /\ Len(tokens) = Len(source) + 1
    /\ \A i \in 1..Len(source) :
         /\ tokens[i].token_type = PunctuationKind(source[i])
         /\ tokens[i].lexeme = <<source[i]>>
    /\ Last(tokens).token_type = "Eof"
    /\ errors = <<>>

\* C2 as stated: every source made only of the punctuation marks
\* ( ) { } , . - + ; * / yields one token of the corresponding kind per
\* character, in source order, then Eof, and no error.
C2_PunctuationAsStated == (FirstScanDone /\ PunctuationOnly) => OneTokenPerCharacter

\* C2, amended: every source made only of the punctuation marks
\* ( ) { } , . - + ; * / in which no '/' is immediately followed by another
\* '/' yields one token of the corresponding kind per character, in source
\* order, then Eof, and no error.
C2_PunctuationNoComment ==
    (FirstScanDone /\ PunctuationOnly /\ NoAdjacentSlashes) => OneTokenPerCharacter

C2_Witness ==
    /\ FirstScanDone
    /\ PunctuationOnly
    /\ NoAdjacentSlashes
    /\ Len(source) >= 3
    /\ \E i \in 1..Len(source) : source[i] = ChSlash
    /\ Len(tokens) = Len(source) + 1

\* C3: no condition inside scan_tokens is fatal: for every source text the
\* scan never aborts, and the text construct_number collects always parses
\* as a 64-bit float (the unwrap never meets Err).
C3_NeverAborts == panic = "none"

InnerLoops == {"comment", "string", "number", "fraction", "identifier"}

Terminated == pc = "returned" \/ panic # "none"

\* C4: scan_tokens terminates (it returns, or it aborts): every call of
\* scan_token increases current by at least 1, no step decreases current,
\* every iteration of an inner loop (comment, string, number, identifier)
\* increases current by 1, and when scan_tokens returns current equals
\* len(source).
C4_Terminates ==
    /\ [][/\ current' >= current
          /\ (pc = "scan_token" /\ panic' = "none") => current' >= current + 1
          /\ (pc \in InnerLoops /\ pc' \in InnerLoops /\ panic' = "none")
                => current' = current + 1]_vars
    /\ [](pc = "returned" => current = Len(source))
    /\ <>Terminated

C4_Witness ==
    /\ FirstScanDone
    /\ current = Len(source)
    /\ Len(source) >= 4
    /\ Len(tokens) = 2

\* C5: in every reachable state 0 <= start <= current <= len(source); when
\* the main loop has assigned start and scan_token has not yet advanced,
\* start = current; and no indexing of source is out of bounds.
C5_CursorInBounds ==
    /\ 0 <= start
    /\ start <= current
    /\ current <= Len(source)
    /\ pc = "scan_token" => start = current
    /\ panic # "index"

\* peek and peek_next have been evaluated at the last and past the last
\* character, inside a fractional part
C5_Witness ==
    /\ pc = "fraction"
    /\ current = Len(source)
    /\ start < current
    /\ start > 0

UnterminatedMessage == <<"Unterminated string.">>

\* the sequence after is the sequence before with one element appended
Grown(before, after) ==
    /\ Len(after) = Len(before) + 1
    /\ SubSeq(after, 1, Len(before)) = before

\* the lexeme about to be scanned starts with a '"' that no later '"' closes
C6_Case ==
    /\ pc = "scan_token"
    /\ Running
    /\ current < Len(source)
    /\ source[current + 1] = ChQuote
    /\ \A j \in (current + 2)..Len(source) : source[j] # ChQuote

\* C6: when a '"' is consumed as the start of a lexeme and no further '"'
\* occurs before end-of-input, the rest of the scan appends exactly one
\* error, "Unterminated string.", and exactly one token, the Eof token, and
\* it completes with current = len(source).
C6_UnterminatedString ==
    C6_Case =>
        LET f == Run(Self, "scan_token")
        IN  /\ f.panic = "none"
            /\ f.current = Len(source)
            /\ Grown(errors, f.errors)
            /\ Last(f.errors).message = UnterminatedMessage
            /\ Grown(tokens, f.tokens)
            /\ Last(f.tokens).token_type = "Eof"

C6_Witness ==
    /\ FirstScanDone
    /\ Len(errors) >= 2
    /\ Last(errors).message = UnterminatedMessage
    /\ Len(tokens) >= 2
    /\ current = Len(source)

\* the classes of characters scan_token recognizes
Recognized(c) ==
    \/ c \in Punctuation
    \/ c \in {ChBang, ChEqual, ChLess, ChGreater}
    \/ c \in {ChSpace, ChCR, ChTab, ChNewline}
    \/ c = ChQuote
    \/ c \in 48..57
    \/ c \in (97..122) \cup (65..90)
    \/ c = ChUnderscore

\* the lexeme about to be scanned starts with an unrecognized character
C7_Case ==
    /\ pc = "scan_token"
    /\ Running
    /\ current < Len(source)
    /\ ~Recognized(source[current + 1])

\* C7: when the character consumed at the start of a lexeme is outside all
\* recognized classes, the step appends exactly one error "Unexpected
\* character: <char>" with the line and column after the character, appends
\* no token and consumes exactly that character; and the rest of the scan
\* yields the tokens, and after that error the errors, it yields when the
\* character is replaced by a space.
C7_UnexpectedCharacter ==
    C7_Case =>
        LET c == source[current + 1]
            e == ScannerError(<<"Unexpected character: ", c>>, line, column + 1)
            r == Step(Self, "scan_token")
            f == Run(Self, "scan_token")
            g == Run([Self EXCEPT !.source[current + 1] = ChSpace], "scan_token")
        IN  /\ r.pc = "loop"
            /\ r.self.errors = Append(errors, e)
            /\ r.self.tokens = tokens
            /\ r.self.current = current + 1
            /\ r.self.line = line
            /\ f.tokens = g.tokens
            /\ f.panic = g.panic
            /\ f.current = g.current
            /\ Len(g.errors) >= Len(errors)
            /\ f.errors = Append(errors, e) \o SubSeq(g.errors, Len(errors) + 1, Len(g.errors))

C7_Witness ==
    /\ FirstScanDone
    /\ Len(source) >= 3
    /\ ~Recognized(source[1])
    /\ errors # <<>>
    /\ errors[1].message = <<"Unexpected character: ", source[1]>>
    /\ Len(tokens) >= 3

\* the step appends one token of this kind and lexeme, with no literal
Emitted(kind, lexeme) ==
    /\ Grown(tokens, tokens')
    /\ Last(tokens').token_type = kind
    /\ Last(tokens').lexeme = lexeme
    /\ Last(tokens').literal.tag = "None"

OneCharacterKind(c) ==
    CASE c = ChBang -> "Bang"
      [] c = ChEqual -> "Equal"
      [] c = ChLess -> "Less"
      [] c = ChGreater -> "Greater"

TwoCharacterKind(c) ==
    CASE c = ChBang -> "BangEqual"
      [] c = ChEqual -> "EqualEqual"
      [] c = ChLess -> "LessEqual"
      [] c = ChGreater -> "GreaterEqual"

\* C8: for c in {!, =, <, >} consumed at the start of a lexeme: if the next
\* unread character exists and is '=', the step consumes both characters
\* and emits the two-character token with a 2-character lexeme; otherwise
\* it consumes only c and emits the one-character token.
C8_TwoCharacterOperators ==
    [][(/\ pc = "scan_token"
        /\ Running
        /\ current < Len(source)
        /\ source[current + 1] \in {ChBang, ChEqual, ChLess, ChGreater})
       => LET c == source[current + 1]
          IN  /\ pc' = "loop"
              /\ errors' = errors
              /\ IF current + 1 < Len(source) /\ source[current + 2] = ChEqual
                 THEN /\ current' = current + 2
                      /\ Emitted(TwoCharacterKind(c), <<c, ChEqual>>)
                 ELSE /\ current' = current + 1
                      /\ Emitted(OneCharacterKind(c), <<c>>)]_vars

C8_Witness ==
    /\ FirstScanDone
    /\ Len(tokens) = 3
    /\ tokens[1].token_type = "EqualEqual"
    /\ tokens[2].token_type = "Equal"
    /\ current = 3

\* the step appends one Number token of this lexeme
EmittedNumber(lexeme) ==
    /\ Grown(tokens, tokens')
    /\ Last(tokens').token_type = "Number"
    /\ Last(tokens').lexeme = lexeme
    /\ Last(tokens').literal.tag = "Number"

\* C9: number extraction, having read the leading digits and found a '.',
\* consumes the '.' if and only if the character after it is a digit;
\* digits '.' digits then forms a single Number token whose lexeme contains
\* the dot; otherwise the Number token ends before the '.', which is not
\* consumed, and the '.' is then emitted as a Dot token.
C9_FractionRule ==
    [][/\ (/\ pc = "number"
           /\ Running
           /\ current < Len(source)
           /\ source[current + 1] = ChDot)
          => IF current + 1 < Len(source) /\ source[current + 2] \in 48..57
             THEN pc' = "fraction" /\ current' = current + 1 /\ tokens' = tokens
             ELSE /\ pc' = "loop"
                  /\ current' = current
                  /\ EmittedNumber(SubSeq(source, start + 1, current))
       /\ (/\ pc = "fraction"
           /\ Running
           /\ ~(current < Len(source) /\ source[current + 1] \in 48..57))
          => /\ pc' = "loop"
             /\ current' = current
             /\ EmittedNumber(SubSeq(source, start + 1, current))
             /\ \E i \in 1..Len(Last(tokens').lexeme) : Last(tokens').lexeme[i] = ChDot
       /\ (/\ pc = "scan_token"
           /\ Running
           /\ current < Len(source)
           /\ source[current + 1] = ChDot)
          => Emitted("Dot", <<ChDot>>)]_vars

\* C10: the step that finds the closing '"' of a string literal emits one
\* String token whose lexeme is the source text from the opening '"'
\* through the closing '"' and whose literal is Literal::String of the
\* characters strictly between the two quotes.
C10_StringToken ==
    [][(/\ pc = "string"
        /\ Running
        /\ current < Len(source)
        /\ source[current + 1] = ChQuote)
       => /\ source[start + 1] = ChQuote
          /\ start < current
          /\ pc' = "loop"
          /\ current' = current + 1
          /\ errors' = errors
          /\ Grown(tokens, tokens')
          /\ Last(tokens').token_type = "String"
          /\ Last(tokens').lexeme = SubSeq(source, start + 1, current + 1)
          /\ Last(tokens').literal.tag = "String"
          /\ Last(tokens').literal.value = SubSeq(source, start + 2, current)
          /\ Len(Last(tokens').literal.value) = Len(Last(tokens').lexeme) - 2]_vars

\* the string of test_scan_tokens_for_string
C10_Witness ==
    /\ FirstScanDone
    /\ Len(tokens) = 2
    /\ tokens[1].token_type = "String"
    /\ Len(tokens[1].lexeme) = 11
    /\ Len(tokens[1].literal.value) = 9
    /\ tokens[1].literal.value[1] = 67

\* the number of newlines among the first i characters of the source
NewlinesBefore(i) == Cardinality({j \in 1..i : source[j] = ChNewline})

\* the index (0-based) of the first character of the line that holds the
\* character of index i: 0, or the index after the last newline before i
LineStart(i) ==
    LET nl == {j \in 1..i : source[j] = ChNewline}
    IN  IF nl = {} THEN 0 ELSE CHOOSE j \in nl : \A k \in nl : k <= j

HasNewline(text) == \E j \in 1..Len(text) : text[j] = ChNewline

\* a String token with a newline in it ends on the line of number ln
MultiLineStringEndsOn(ln) ==
    \E i \in 1..Len(tokens) :
        /\ tokens[i].token_type = "String"
        /\ HasNewline(tokens[i].lexeme)
        /\ tokens[i].line = ln

\* C11: every emitted token's line and column are the Scanner's line and
\* column at its emission, after the whole lexeme has been consumed: a
\* token of lexeme length k that starts at 1-based column c of a line, with
\* no multi-line string earlier on that line, reports column c + k - 1.
C11_PositionAtEmission ==
    [][Grown(tokens, tokens')
       => LET t == Last(tokens')
              c == start - LineStart(start) + 1
              k == Len(t.lexeme)
          IN  /\ t.line = line'
              /\ t.column = column'
              /\ (/\ t.token_type # "Eof"
                  /\ ~MultiLineStringEndsOn(1 + NewlinesBefore(start)))
                 => /\ k = current' - start
                    /\ t.column = c + k - 1]_vars

\* a three-character token on the second line
C11_Witness ==
    /\ FirstScanDone
    /\ Len(tokens) = 2
    /\ tokens[1].line = 2
    /\ Len(tokens[1].lexeme) = 3
    /\ tokens[1].column = 3

\* a newline of the source lies inside a string literal, terminated or not
NewlineInString ==
    \/ \E i \in 1..Len(tokens) :
          tokens[i].token_type = "String" /\ HasNewline(tokens[i].lexeme)
    \/ /\ errors # <<>>
       /\ Last(errors).message = UnterminatedMessage
       /\ HasNewline(SubSeq(source, start + 1, Len(source)))

\* the line and the 1-based column of the final character of the source
FinalLine == 1 + NewlinesBefore(Len(source) - 1)
FinalColumn == Len(source) - LineStart(Len(source) - 1)

\* C12 as stated: the Eof token's line and column are those of the final
\* character of the source, also when that character is a newline; for the
\* empty source they are line 1, column 0.
C12_EofAtFinalCharacter ==
    FirstScanDone =>
        IF source = <<>>
        THEN Last(tokens).line = 1 /\ Last(tokens).column = 0
        ELSE Last(tokens).line = FinalLine /\ Last(tokens).column = FinalColumn

\* C12, amended: for every non-empty source in which no newline lies
\* inside a string literal, the Eof token's line and column are those of
\* the final character when that character is not a newline, and the next
\* line and column 0 when it is; for the empty source they are line 1,
\* column 0.
C12_EofAtCursor ==
    (FirstScanDone /\ ~NewlineInString) =>
        IF source = <<>>
        THEN Last(tokens).line = 1 /\ Last(tokens).column = 0
        ELSE IF source[Len(source)] # ChNewline
        THEN Last(tokens).line = FinalLine /\ Last(tokens).column = FinalColumn
        ELSE Last(tokens).line = FinalLine + 1 /\ Last(tokens).column = 0

\* a source of two lines whose final character is not a newline
C12_Witness ==
    /\ FirstScanDone
    /\ ~NewlineInString
    /\ Len(source) = 4
    /\ source[2] = ChNewline
    /\ source[4] # ChNewline
    /\ Last(tokens).line = 2
    /\ Last(tokens).column = 2

LiteralKinds == {"String", "Number", "True", "False", "Nil"}

\* C13: a token carries a literal if and only if its kind is String,
\* Number, True, False or Nil: Literal::String, Literal::Number,
\* Boolean(true), Boolean(false) and Literal::Nil; every other kind
\* carries none.
C13_LiteralKinds ==
    \A i \in 1..Len(tokens) :
        LET t == tokens[i]
        IN  /\ t.literal.tag # "None" <=> t.token_type \in LiteralKinds
            /\ t.token_type = "String" => t.literal.tag = "String"
            /\ t.token_type = "Number" => t.literal.tag = "Number"
            /\ t.token_type = "True" => t.literal.tag = "Boolean" /\ t.literal.value = TRUE
            /\ t.token_type = "False" => t.literal.tag = "Boolean" /\ t.literal.value = FALSE
            /\ t.token_type = "Nil" => t.literal.tag = "Nil"

\* the source nil followed by a space
C13_Witness ==
    /\ FirstScanDone
    /\ Len(tokens) = 2
    /\ Len(source) = 4
    /\ tokens[1].token_type = "Nil"
    /\ tokens[1].literal.tag = "Nil"

\* the 16 reserved words and the kind of each
ReservedWordKind(text) ==
    CASE text = <<97, 110, 100>> -> "And"
      [] text = <<99, 108, 97, 115, 115>> -> "Class"
      [] text = <<101, 108, 115, 101>> -> "Else"
      [] text = <<102, 97, 108, 115, 101>> -> "False"
      [] text = <<102, 111, 114>> -> "For"
      [] text = <<102, 117, 110>> -> "Fun"
      [] text = <<105, 102>> -> "If"
      [] text = <<110, 105, 108>> -> "Nil"
      [] text = <<111, 114>> -> "Or"
      [] text = <<112, 114, 105, 110, 116>> -> "Print"
      [] text = <<114, 101, 116, 117, 114, 110>> -> "Return"
      [] text = <<115, 117, 112, 101, 114>> -> "Super"
      [] text = <<116, 104, 105, 115>> -> "This"
      [] text = <<116, 114, 117, 101>> -> "True"
      [] text = <<118, 97, 114>> -> "Var"
      [] text = <<119, 104, 105, 108, 101>> -> "While"
      [] OTHER -> "Identifier"

IdentifierStart(c) == c \in (97..122) \cup (65..90) \/ c = ChUnderscore

IdentifierPart(c) == is_alphanumeric(c) \/ c = ChUnderscore

\* C14: a lexeme starting with an ASCII letter or underscore extends over
\* the maximal run of alphanumeric characters and underscores, and is one
\* token: of the keyword kind if and only if the whole run equals one of
\* the 16 reserved words, and an Identifier otherwise.
C14_KeywordOnFullRun ==
    [][/\ (pc = "scan_token" /\ Running /\ current < Len(source)
           /\ IdentifierStart(source[current + 1]))
          => pc' = "identifier" /\ current' = current + 1 /\ tokens' = tokens
       /\ (pc = "identifier" /\ Running /\ current < Len(source)
           /\ IdentifierPart(source[current + 1]))
          => pc' = "identifier" /\ current' = current + 1 /\ tokens' = tokens
       /\ (pc = "identifier" /\ Running
           /\ ~(current < Len(source) /\ IdentifierPart(source[current + 1])))
          => LET run == SubSeq(source, start + 1, current)
             IN  /\ pc' = "loop"
                 /\ current' = current
                 /\ errors' = errors
                 /\ IdentifierStart(run[1])
                 /\ \A j \in 1..Len(run) : IdentifierPart(run[j])
                 /\ Grown(tokens, tokens')
                 /\ Last(tokens').lexeme = run
                 /\ Last(tokens').token_type = ReservedWordKind(run)]_vars

\* the source classy: the reserved word class at the head of an identifier
C14_Witness ==
    /\ FirstScanDone
    /\ Len(tokens) = 2
    /\ tokens[1].token_type = "Identifier"
    /\ tokens[1].lexeme = <<99, 108, 97, 115, 115, 121>>

\* C15: a line comment produces no token and does not consume its newline:
\* after '//' the scanner consumes the characters up to, not including,
\* the next '\n' or the end of input; a '\n' at the start of a lexeme is
\* consumed by the main loop's scan_token, which increments line; each '\n'
\* consumed inside a string literal increments line by exactly 1; and a
\* '/' not followed by '/' emits a Slash token.
C15_CommentAndNewlines ==
    [][/\ (pc = "scan_token" /\ Running /\ current < Len(source)
           /\ source[current + 1] = ChSlash)
          => IF current + 1 < Len(source) /\ source[current + 2] = ChSlash
             THEN pc' = "comment" /\ current' = current + 2 /\ tokens' = tokens
             ELSE pc' = "loop" /\ current' = current + 1
                  /\ Emitted("Slash", <<ChSlash>>)
       /\ (pc = "comment" /\ Running)
          => /\ tokens' = tokens
             /\ errors' = errors
             /\ line' = line
             /\ IF current < Len(source) /\ source[current + 1] # ChNewline
                THEN pc' = "comment" /\ current' = current + 1
                ELSE pc' = "loop" /\ current' = current
       /\ (pc = "scan_token" /\ Running /\ current < Len(source)
           /\ source[current + 1] = ChNewline)
          => pc' = "loop" /\ current' = current + 1 /\ line' = line + 1
             /\ tokens' = tokens
       /\ (pc = "string" /\ Running /\ current' = current + 1)
          => line' = line + (IF source[current + 1] = ChNewline THEN 1 ELSE 0)]_vars

\* the source //a\n: nothing but Eof, on line 2
C15_Witness ==
    /\ FirstScanDone
    /\ Len(source) = 4
    /\ source[1] = ChSlash
    /\ source[2] = ChSlash
    /\ source[4] = ChNewline
    /\ Len(tokens) = 1
    /\ line = 2
    /\ errors = <<>>

\* the number of newlines in source[a..b] (0-based, half-open)
NewlinesIn(a, b) == Cardinality({j \in (a + 1)..b : source[j] = ChNewline})

\* C16: column is reset to 0 only by the newline the main loop consumes as
\* the start of a lexeme, and every other step adds to column the number of
\* characters it consumes; so a string lexeme of length k that started with
\* column value c leaves column = c + k, and line raised by the number of
\* newlines in it.
C16_ColumnReset ==
    /\ [][IF pc = "scan_token" /\ Running /\ current < Len(source)
             /\ source[current + 1] = ChNewline
          THEN column' = 0
          ELSE column' = column + (current' - current)]_vars
    /\ [](/\ pc = "scan_token"
          /\ Running
          /\ current < Len(source)
          /\ source[current + 1] = ChQuote
          => LET r == RunLexeme(Self, "scan_token")
                 k == r.current - current
             IN  /\ r.column = column + k
                 /\ r.line = line + NewlinesIn(current, r.current)
                 /\ Len(r.tokens) > Len(tokens)
                    => /\ Len(Last(r.tokens).lexeme) = k
                       /\ Last(r.tokens).column = column + k)

\* a string of two newlines scanned from column 0
C16_Witness ==
    /\ FirstScanDone
    /\ Len(tokens) = 2
    /\ tokens[1].token_type = "String"
    /\ tokens[1].lexeme = <<34, 10, 10, 34>>
    /\ tokens[1].column = 4
    /\ tokens[1].line = 3

\* the lines of a sequence of tokens or errors never decrease
LinesInOrder(seq) ==
    \A i \in 1..Len(seq) : \A j \in i..Len(seq) : seq[i].line <= seq[j].line

RECURSIVE LexemeLengths(_)
\* the total length of the lexemes of a sequence of tokens
LexemeLengths(seq) ==
    IF seq = <<>> THEN 0
    ELSE Len(seq[1].lexeme) + LexemeLengths(Tail(seq))

\* C17: tokens and errors are append-only and in source order: a step
\* leaves each sequence alone or appends one element to it; a non-Eof token
\* has the non-empty lexeme source[start..current] at its emission; start
\* moves only at the head of the main loop, to current, and current never
\* moves back, so the ranges of successive tokens are disjoint and
\* increasing; an error is detected inside the range of the lexeme being
\* scanned, at most one per lexeme, so errors are in order of detection.
C17_AppendOnlyInOrder ==
    /\ [][/\ tokens' = tokens \/ Grown(tokens, tokens')
          /\ errors' = errors \/ Grown(errors, errors')
          /\ ~(tokens' # tokens /\ errors' # errors)
          /\ source' = source
          /\ current' >= current
          /\ start' # start => pc = "loop" /\ pc' = "scan_token"
          /\ (pc = "loop" /\ pc' = "scan_token")
             => start' = current /\ current' = current /\ tokens' = tokens
                /\ errors' = errors
          /\ (tokens' # tokens /\ Last(tokens').token_type # "Eof")
             => /\ pc' = "loop"
                /\ start < current'
                /\ Last(tokens').lexeme = SubSeq(source, start + 1, current')
          /\ errors' # errors
             => /\ pc' = "loop"
                /\ start < current'
                /\ current' <= Len(source)]_vars
    /\ [](/\ LinesInOrder(tokens)
          /\ LinesInOrder(errors)
          /\ LexemeLengths(tokens) + Len(errors) <= current)

\* three tokens and two errors of one scan
C17_Witness ==
    /\ FirstScanDone
    /\ Len(tokens) = 3
    /\ Len(errors) = 2
    /\ tokens[1].lexeme # <<>>
    /\ tokens[2].lexeme # <<>>

\* C18: in every reachable state line is 1 plus the number of '\n' in
\* source[0..current], and the Eof token of a scan that returns has line
\* 1 plus the number of '\n' in the source.
C18_LineCountsNewlines ==
    /\ line = 1 + NewlinesBefore(current)
    /\ pc = "returned" => Last(tokens).line = 1 + NewlinesBefore(Len(source))

\* a newline at top level, one after a comment and one inside an
\* unterminated string are all counted
C18_Witness ==
    /\ FirstScanDone
    /\ line = 3
    /\ NewlinesBefore(Len(source)) = 2
    /\ errors # <<>>
    /\ Last(errors).message = UnterminatedMessage
    /\ Last(tokens).line = 3

\* the last n tokens are Eof tokens and no token before them is
EndsWithEofs(n) ==
    /\ Len(tokens) >= n
    /\ \A i \in 1..Len(tokens) :
         tokens[i].token_type = "Eof" <=> i > Len(tokens) - n

\* C19: an invocation of scan_tokens after the first does not rescan: its
\* steps leave start, current, line, column, the errors and the tokens
\* already produced unchanged and append one Eof token, so after k
\* invocations have returned the token sequence ends with exactly k Eof
\* tokens.
C19_SecondInvocation ==
    /\ [][(pc = "returned" \/ calls >= 2)
          => /\ UNCHANGED <<source, start, current, line, column, errors>>
             /\ \/ tokens' = tokens /\ pc' = "loop" /\ calls' = calls + 1
                \/ /\ Grown(tokens, tokens')
                   /\ Last(tokens').token_type = "Eof"
                   /\ pc = "loop"
                   /\ pc' = "returned"
                   /\ calls' = calls]_vars
    /\ [](pc = "returned" => EndsWithEofs(calls))

\* two invocations of a scan with tokens and an error
C19_Witness ==
    /\ pc = "returned"
    /\ calls = 2
    /\ Len(tokens) >= 4
    /\ errors # <<>>
    /\ tokens[Len(tokens)].token_type = "Eof"
    /\ tokens[Len(tokens) - 1].token_type = "Eof"
    /\ tokens[Len(tokens) - 2].token_type # "Eof"

\* the positions of '"' in a text
QuotesOf(text) == {j \in 1..Len(text) : text[j] = ChQuote}

\* C20: a string ends at the first '"' after the opening one, whatever the
\* character before it (a backslash included): the step that sees it
\* emits the String token; so a String lexeme has exactly two '"', its
\* first and last characters, and its literal has none.
C20_NoEscapes ==
    /\ [][(pc = "string" /\ Running /\ current < Len(source)
           /\ source[current + 1] = ChQuote)
          => /\ Grown(tokens, tokens')
             /\ Last(tokens').token_type = "String"
             /\ current' = current + 1
             /\ pc' = "loop"
             /\ QuotesOf(SubSeq(source, start + 2, current)) = {}]_vars
    /\ [](\A i \in 1..Len(tokens) :
            tokens[i].token_type = "String"
            => /\ Len(tokens[i].lexeme) >= 2
               /\ QuotesOf(tokens[i].lexeme) = {1, Len(tokens[i].lexeme)}
               /\ QuotesOf(tokens[i].literal.value) = {})

\* the source "\"a: the string ends at the quote after the backslash
C20_Witness ==
    /\ FirstScanDone
    /\ Len(source) = 4
    /\ tokens[1].token_type = "String"
    /\ tokens[1].lexeme = <<34, 92, 34>>
    /\ tokens[1].literal.value = <<92>>
    /\ Len(tokens) = 3

====
